---- MODULE Spec2Model ----
(***************************************************************************)
(* Daily settlement ("daily postback") of the cached conversions.          *)
(*                                                                         *)
(* Four trigger paths run the same settle sequence, each from its own copy *)
(* of the code:                                                            *)
(*   timer  : lib/scheduler.js  checkAndRunDailyPostback                   *)
(*   cron   : pages/api/cron/daily-postback.js                             *)
(*   manual : pages/api/admin/manual-daily-postback.js                     *)
(*   force  : pages/api/admin/force-daily-check.js                         *)
(*                                                                         *)
(* Every `await` of the source is one step of an invocation: the awaited   *)
(* store or HTTP operation together with the synchronous code that follows *)
(* it up to the next await.  Invocations interleave at these steps.        *)
(*                                                                         *)
(* lib/database.js is not part of the sources at hand; its five functions  *)
(* are modelled from the specification (section 4.3 and section 7):        *)
(* logConversion and logPostback swallow a failed write, the read of the   *)
(* total and the clear propagate their failure to the caller.              *)
(***************************************************************************)
EXTENDS Integers, Sequences, FiniteSets, TLC

\* ---------------------------------------------------------------- bounds
MaxInv == 2        \* invocations of trigger paths in one behaviour
MaxActive == 1     \* invocations that run at the same time
MaxRecs == 2       \* pending records the upstream flow creates
MaxDay == 2        \* calendar days the clock runs through
MaxFaults == 1     \* store operations that fail in one behaviour
MaxAmount == 1     \* largest amount of one pending record

\* the invocation slots: two are enough for every pairwise interleaving
Invs == 1..2
Recs == 1..MaxRecs
Amounts == 1..MaxAmount

Paths == {"timer", "cron", "manual", "force"}

\* request inputs of the HTTP trigger paths
UserAgents == {"vercel-cron/1.0", "curl/8.0"}
Methods == {"POST", "GET"}

\* null of `let lastDailyRun = null`
NoDay == 0

\* the minutes of a day the clock visits, in order: <<hour, minute>>
TimePoints == << <<0, 0>>, <<23, 0>>, <<23, 59>> >>

VARIABLES
  clock,            \* [day, tp]: the New York wall clock (tp indexes TimePoints)
  nextRec,          \* id of the next pending record the upstream flow creates
  amount,           \* amount of each created record
  pending,          \* cached_conversions: record ids in order of created_at
  conversionLogs,   \* conversion_logs: the audit log
  postbackHistory,  \* postback_history: the settlement attempts
  notifications,    \* requests the external endpoint was sent
  accepting,        \* the endpoint answers every request with a success status
  lastDailyRun,     \* module variable of lib/scheduler.js
  inv,              \* the invocations: position and locals of each
  started,          \* number of invocations started so far
  settled,          \* per record: accepted notifications whose sum included it
  sentToday,        \* per path: notifications sent today (counted up to 2)
  clearedToday,     \* per path: successful clears today (counted up to 2)
  faults,           \* number of store operations that failed so far
  failedSteps,      \* <<slot, step>>: the failed operations of the invocations in the slots
  auditFault,       \* a write or a query of conversion_logs failed
  overlapped        \* an invocation started while another one was running

vars == << clock, nextRec, amount, pending, conversionLogs, postbackHistory,
           notifications, accepting, lastDailyRun, inv, started, settled, sentToday,
           clearedToday, faults, failedSteps, auditFault, overlapped >>

faultVars == << faults, failedSteps >>
store == << nextRec, amount, pending >>
tallies == << started, settled, sentToday, clearedToday >>

\* ------------------------------------------------------------- helpers
RECURSIVE SumAmounts(_, _)
SumAmounts(amt, s) ==
  IF s = << >> THEN 0 ELSE amt[Head(s)] + SumAmounts(amt, Tail(s))

Range(s) == { s[k] : k \in 1..Len(s) }

ClickidOf(r) == "click" \o ToString(r)

Hour == TimePoints[clock.tp][1]
Minute == TimePoints[clock.tp][2]
Today == clock.day

Running(i) == inv[i].pc \notin {"idle", "done"}
Done(i) == inv[i].pc = "done"

CanFail == faults < MaxFaults

\* ------------------------------------------------ per-path literals
Tag(p, k) ==
  CASE p = "timer" ->
         [trigger |-> "daily_auto_trigger",
          nocache |-> "no_cache_to_process",
          preparing |-> "daily_postback_preparing",
          success |-> "daily_postback_success",
          failed |-> "daily_postback_failed",
          cleared |-> "daily_cache_cleared",
          failed_final |-> "daily_postback_failed_final",
          error |-> "daily_execution_error"][k]
    [] p = "cron" ->
         [trigger |-> "cron_daily_trigger",
          dup |-> "cron_duplicate_prevented",
          nocache |-> "cron_no_cache",
          preparing |-> "cron_postback_preparing",
          success |-> "cron_postback_success",
          failed |-> "cron_postback_failed",
          cleared |-> "cron_cache_cleared",
          failed_final |-> "cron_postback_failed_final",
          error |-> "cron_execution_error",
          handler_error |-> "cron_error"][k]
    [] p = "manual" ->
         [trigger |-> "manual_trigger_start",
          nocache |-> "manual_no_cache",
          preparing |-> "manual_postback_preparing",
          success |-> "manual_postback_success",
          failed |-> "manual_postback_failed",
          cleared |-> "manual_cache_cleared",
          error |-> "manual_execution_error"][k]
    [] p = "force" ->
         [trigger |-> "admin_force_daily_check",
          nocache |-> "force_no_cache",
          preparing |-> "force_postback_preparing",
          success |-> "force_postback_success",
          failed |-> "force_postback_failed",
          cleared |-> "force_cache_cleared",
          failed_final |-> "force_postback_failed_final",
          error |-> "force_execution_error",
          handler_error |-> "admin_force_check_error"][k]

\* clickid of the entries a path writes before it has a primaryClickid
Actor(p) ==
  CASE p = "timer" -> "auto-scheduler"
    [] p = "cron" -> "vercel-cron"
    [] p = "manual" -> "manual-admin"
    [] p = "force" -> "admin-force-check"

\* the `|| '...'` fallback of primaryClickid
Sentinel(p) ==
  CASE p = "timer" -> "auto-scheduler"
    [] p = "cron" -> "vercel-cron"
    [] p = "manual" -> "manual-trigger"
    [] p = "force" -> "force-check"

Message(p, k) ==
  CASE k = "nocache" -> "No cached conversions to process"
    [] k = "dup" -> "Already processed today - duplicate prevented"
    [] k = "success" ->
         (CASE p = "manual" -> "Manual daily postback sent successfully and cache cleared"
            [] p = "force" -> "Force daily check: postback sent successfully and cache cleared"
            [] OTHER -> "Daily postback sent successfully and cache cleared")
    [] k = "failure" ->
         (CASE p = "manual" -> "Manual daily postback failed - cache not cleared"
            [] p = "force" -> "Force daily check: postback failed - cache not cleared"
            [] OTHER -> "Daily postback failed - cache not cleared")
    [] k = "error" ->
         (CASE p = "manual" -> "Manual daily postback execution error"
            [] p = "force" -> "Force daily check execution error"
            [] OTHER -> "Daily postback execution error")

\* ------------------------------------------------------------ initial state
NoResult == [none |-> TRUE]

IdleInv ==
  [path |-> "timer", pc |-> "idle",
   totalCached |-> 0, totalRecs |-> {}, primaryClickid |-> "",
   postbackSuccess |-> FALSE, errorMessage |-> "", userAgent |-> "",
   beforeSuccess |-> FALSE,
   engine |-> FALSE, totalRead |-> FALSE, clearCalled |-> FALSE, clearedBefore |-> 0, clearedRows |-> 0, deleted |-> {},
   status |-> 0, result |-> NoResult]

Init ==
  /\ clock = [day |-> 1, tp |-> 1]
  /\ nextRec = 1
  /\ amount = [r \in Recs |-> 0]
  /\ pending = << >>
  /\ conversionLogs = {}
  /\ postbackHistory = {}
  /\ notifications = {}
  /\ accepting = FALSE
  /\ lastDailyRun = NoDay
  /\ inv = [i \in Invs |-> IdleInv]
  /\ started = 0
  /\ settled = [r \in Recs |-> 0]
  /\ sentToday = [p \in Paths |-> 0]
  /\ clearedToday = [p \in Paths |-> 0]
  /\ faults = 0
  /\ failedSteps = {}
  /\ auditFault = FALSE
  /\ overlapped = FALSE


\* ----------------------------------------------------- lib/database.js
\* logConversion: appends one audit entry; a failed write is swallowed
LogConversion(i, clickid, action) ==
  \/ /\ conversionLogs' = conversionLogs \cup
            {[inv |-> i, clickid |-> clickid, action |-> action, day |-> Today]}
     /\ UNCHANGED << faultVars, auditFault >>
  \/ /\ CanFail
     /\ faults' = faults + 1
     /\ failedSteps' = failedSteps \cup {<<i, inv[i].pc>>}
     /\ auditFault' = TRUE
     /\ UNCHANGED conversionLogs

\* logPostback: appends one settlement attempt; a failed write is swallowed
LogPostback(i, clickid, amt, url, success) ==
  \/ /\ postbackHistory' = postbackHistory \cup
            {[inv |-> i, clickid |-> clickid, amount |-> amt, url |-> url,
              success |-> success]}
     /\ UNCHANGED faultVars
  \/ /\ CanFail
     /\ faults' = faults + 1
     /\ failedSteps' = failedSteps \cup {<<i, inv[i].pc>>}
     /\ UNCHANGED postbackHistory

\* getGlobalCachedTotal: SUM(amount) over cached_conversions, 0 when empty
GetGlobalCachedTotal == SumAmounts(amount, pending)

\* clearAllCachedConversions: DELETE FROM cached_conversions, affected rows
ClearAllCachedConversions == Len(pending)

\* a store operation of invocation i rejects
Throws(i) ==
  /\ CanFail
  /\ faults' = faults + 1
  /\ failedSteps' = failedSteps \cup {<<i, inv[i].pc>>}

\* ------------------------------------------------------------ results
\* what the HTTP handlers spread the result of the engine into
HandlerBody(p, result) ==
  CASE p = "cron" -> result @@ [success |-> TRUE, timezone |-> "Cron runs at 11:59 PM Eastern Time (4:59 AM UTC)"]
    [] p = "manual" -> result @@ [triggered |-> TRUE]
    [] p = "force" -> result @@ [forced |-> TRUE]
    [] OTHER -> result

HandlerStatus(p, result) ==
  CASE p = "cron" -> 200
    [] p \in {"manual", "force"} -> IF result.success THEN 200 ELSE 500
    [] OTHER -> 0

\* the invocation returns `result` from the engine
Return(i, result, locals) ==
  inv' = [inv EXCEPT ![i] =
            [locals EXCEPT !.pc = "done",
                           !.result = HandlerBody(inv[i].path, result),
                           !.status = HandlerStatus(inv[i].path, result)]]

Goto(i, pc, locals) ==
  inv' = [inv EXCEPT ![i] = [locals EXCEPT !.pc = pc]]

\* --------------------------------------------------------- environment
\* the upstream conversion flow caches one more conversion
AddPending(a) ==
  /\ nextRec <= MaxRecs
  /\ \A j \in Invs : ~Done(j)
  /\ pending' = Append(pending, nextRec)
  /\ amount' = [amount EXCEPT ![nextRec] = a]
  /\ nextRec' = nextRec + 1
  /\ UNCHANGED << clock, accepting, conversionLogs, postbackHistory, notifications,
                  lastDailyRun, inv, tallies, faultVars, auditFault, overlapped >>

\* the wall clock moves to the next minute of interest; the clock is read
\* between invocations (an invocation starts and ends at one clock reading)
Tick ==
  /\ \A j \in Invs : inv[j].pc = "idle"
  /\ \/ /\ clock.tp < Len(TimePoints)
        /\ clock' = [clock EXCEPT !.tp = @ + 1]
        /\ UNCHANGED << sentToday, clearedToday >>
     \/ /\ clock.tp = Len(TimePoints)
        /\ clock.day < MaxDay
        /\ clock' = [day |-> clock.day + 1, tp |-> 1]
        /\ sentToday' = [p \in Paths |-> 0]
        /\ clearedToday' = [p \in Paths |-> 0]
  /\ UNCHANGED << store, conversionLogs, postbackHistory, notifications,
                  accepting, lastDailyRun, inv, started, settled, faultVars, auditFault,
                  overlapped >>

\* the caller has taken the result of a finished invocation.  Its rows in
\* postback_history and its requests are history no later invocation reads;
\* of its rows in conversion_logs only the ones the duplicate check counts
\* can matter later, and those are kept.
Retire(i) ==
  /\ Done(i)
  /\ inv' = [inv EXCEPT ![i] = IdleInv]
  /\ conversionLogs' =
       { e \in conversionLogs : e.inv # i } \cup
       { [inv |-> 0, clickid |-> "", action |-> e.action, day |-> e.day] :
           e \in { x \in conversionLogs :
                     /\ x.inv = i
                     /\ x.action \in {"cron_postback_success", "cron_cache_cleared"} } }
  /\ postbackHistory' = { h \in postbackHistory : h.inv # i }
  /\ notifications' = { n \in notifications : n.inv # i }
  /\ failedSteps' = { f \in failedSteps : f[1] # i }
  /\ UNCHANGED << clock, accepting, store, lastDailyRun, tallies, faults, auditFault,
                  overlapped >>

\* ------------------------------------------------------- trigger paths
\* a trigger fires: slot i takes the invocation
Start(i) ==
  /\ inv[i].pc = "idle"
  /\ \A j \in Invs : ~Done(j)
  /\ \A j \in Invs : j < i => inv[j].pc # "idle"
  /\ Cardinality({ j \in Invs : Running(j) }) < MaxActive
  /\ overlapped' = (overlapped \/ \E j \in Invs : Running(j))

\* variant: the window is the whole hour
IsTimeWindowAnyMinute(hour, minute) == hour = 23

\* const isTimeWindow = (hour === 23 && minute === 59)
IsTimeWindow(hour, minute) == hour = 23 /\ minute = 59

\* the invocation counts against the bound on invocations
Counted ==
  /\ started < MaxInv
  /\ started' = started + 1

\* variant: the marker only counts once the run of that day has cleared
AlreadyRanAndCleared == lastDailyRun = Today /\ clearedToday["timer"] >= 1

\* if (lastDailyRun === currentDateString)
AlreadyRan == lastDailyRun = Today

\* lib/scheduler.js checkAndRunDailyPostback, up to its first await
CheckAndRunDailyPostback(i) ==
  /\ LET me == [IdleInv EXCEPT !.path = "timer"]
         isTimeWindow == IsTimeWindow(Hour, Minute)
     IN IF AlreadyRan
        THEN /\ inv' = [inv EXCEPT ![i] = [me EXCEPT !.pc = "done",
                          !.result = [skipped |-> TRUE, reason |-> "Already ran today"]]]
             /\ UNCHANGED lastDailyRun
        ELSE IF ~isTimeWindow
        THEN /\ inv' = [inv EXCEPT ![i] = [me EXCEPT !.pc = "done",
                          !.result = [skipped |-> TRUE, reason |-> "Not in time window"]]]
             /\ UNCHANGED lastDailyRun
        ELSE /\ lastDailyRun' = Today
             /\ Goto(i, "log_trigger", me)
  /\ UNCHANGED << clock, accepting, store, conversionLogs, postbackHistory, notifications,
                  settled, sentToday, clearedToday, faultVars, auditFault >>

\* variant: the handler without the user-agent test
AuthorizedAnyone(userAgent) == TRUE

\* req.headers['user-agent'] !== 'vercel-cron/1.0' rejects the call
Authorized(userAgent) == userAgent = "vercel-cron/1.0"

\* pages/api/cron/daily-postback.js handler, up to its first await
CronHandler(i, userAgent) ==
  /\ LET me == [IdleInv EXCEPT !.path = "cron", !.userAgent = userAgent]
     IN IF ~Authorized(userAgent)
        THEN inv' = [inv EXCEPT ![i] = [me EXCEPT !.pc = "done", !.status = 401,
                        !.result = [error |-> "Unauthorized - Not a Vercel Cron request"]]]
        ELSE Goto(i, "init_db", me)
  /\ UNCHANGED << clock, accepting, store, conversionLogs, postbackHistory, notifications,
                  lastDailyRun, settled, sentToday, clearedToday, faultVars, auditFault >>

\* pages/api/admin/manual-daily-postback.js handler, up to its first await
ManualHandler(i, method) ==
  /\ LET me == [IdleInv EXCEPT !.path = "manual"]
     IN IF method # "POST"
        THEN inv' = [inv EXCEPT ![i] = [me EXCEPT !.pc = "done", !.status = 405,
                        !.result = [message |-> "Method not allowed"]]]
        ELSE Goto(i, "log_trigger", me)
  /\ UNCHANGED << clock, accepting, store, conversionLogs, postbackHistory, notifications,
                  lastDailyRun, settled, sentToday, clearedToday, faultVars, auditFault >>

\* pages/api/admin/force-daily-check.js handler, up to its first await
ForceHandler(i, method) ==
  /\ LET me == [IdleInv EXCEPT !.path = "force"]
     IN IF method # "POST"
        THEN inv' = [inv EXCEPT ![i] = [me EXCEPT !.pc = "done", !.status = 405,
                        !.result = [message |-> "Method not allowed"]]]
        ELSE Goto(i, "init_db", me)
  /\ UNCHANGED << clock, accepting, store, conversionLogs, postbackHistory, notifications,
                  lastDailyRun, settled, sentToday, clearedToday, faultVars, auditFault >>

\* await initializeDatabase() of the cron and force handlers
InitializeDatabase(i) ==
  /\ inv[i].pc = "init_db"
  /\ \/ /\ Goto(i, "log_trigger", inv[i])
        /\ UNCHANGED faultVars
     \/ /\ Throws(i)
        /\ Goto(i, "log_handler_error",
                [inv[i] EXCEPT !.errorMessage = "initializeDatabase failed"])
  /\ UNCHANGED << clock, accepting, store, conversionLogs, postbackHistory, notifications,
                  lastDailyRun, tallies, auditFault, overlapped >>

\* the catch of the cron and force handlers
LogHandlerError(i) ==
  /\ inv[i].pc = "log_handler_error"
  /\ LogConversion(i, Actor(inv[i].path), Tag(inv[i].path, "handler_error"))
  /\ inv' = [inv EXCEPT ![i] = [@ EXCEPT !.pc = "done", !.status = 500,
               !.result = IF inv[i].path = "cron"
                          THEN [success |-> FALSE, error |-> inv[i].errorMessage]
                          ELSE [error |-> inv[i].errorMessage,
                                message |-> "Failed to force daily check"]]]
  /\ UNCHANGED << clock, accepting, store, postbackHistory, notifications, lastDailyRun,
                  tallies, overlapped >>

\* variant: the admin paths consult the persisted duplicate check as well
FirstStepDedupAdmin(p) == IF p = "timer" THEN "get_total" ELSE "check_dup"

\* first await of the engine function: the cron copy begins with
\* checkIfAlreadyRanToday, the other three with getGlobalCachedTotal
FirstStep(p) == IF p = "cron" THEN "check_dup" ELSE "get_total"

\* the trigger entry each path logs before it runs the engine
LogTrigger(i) ==
  /\ inv[i].pc = "log_trigger"
  /\ LogConversion(i, Actor(inv[i].path), Tag(inv[i].path, "trigger"))
  /\ Goto(i, FirstStep(inv[i].path), [inv[i] EXCEPT !.engine = TRUE])
  /\ UNCHANGED << clock, accepting, store, postbackHistory, notifications, lastDailyRun,
                  tallies, overlapped >>

\* a trigger fires, within the bound on invocations
TimerBegin(i) == Counted /\ Start(i) /\ CheckAndRunDailyPostback(i)
CronBegin(i, userAgent) == Counted /\ Start(i) /\ CronHandler(i, userAgent)
ManualBegin(i, method) == Counted /\ Start(i) /\ ManualHandler(i, method)
ForceBegin(i, method) == Counted /\ Start(i) /\ ForceHandler(i, method)

\* ------------------------------------------------------------ the engine
\* executeDailyPostback / executeForcedDailyPostback, one step per await.
\* A rejected store operation inside the function's try block lands in its
\* catch, whose first await is the execution-error log.
Caught(i, message) ==
  /\ Throws(i)
  /\ Goto(i, "log_error", [inv[i] EXCEPT !.errorMessage = message])

\* variant: only the cache-cleared row counts as a run
ClearedToday(e) ==
  /\ e.action = "cron_cache_cleared"
  /\ e.day = Today

\* variant: the preparing row of a run under way counts as a run
StartedToday(e) ==
  /\ e.action \in {"cron_postback_preparing", "cron_postback_success",
                   "cron_cache_cleared"}
  /\ e.day = Today

\* the rows the persisted duplicate check counts
ConfirmedToday(e) ==
  /\ e.action \in {"cron_postback_success", "cron_cache_cleared"}
  /\ e.day = Today

\* variant: the catch of checkIfAlreadyRanToday answers "already ran"
HasRunWhenQueryFailsClosed == TRUE

\* catch (error) { return false; }
HasRunWhenQueryFails == FALSE

\* cron path only: const hasRunToday = await checkIfAlreadyRanToday()
CheckIfAlreadyRanToday(i) ==
  /\ inv[i].pc = "check_dup"
  /\ \/ /\ LET hasRunToday == \E e \in conversionLogs : ConfirmedToday(e)
           IN Goto(i, IF hasRunToday THEN "log_dup" ELSE "get_total", inv[i])
        /\ UNCHANGED << faultVars, auditFault >>
     \/ /\ Throws(i)          \* the query rejects
        /\ auditFault' = TRUE
        /\ Goto(i, IF HasRunWhenQueryFails THEN "log_dup" ELSE "get_total", inv[i])
  /\ UNCHANGED << clock, accepting, store, conversionLogs, postbackHistory, notifications,
                  lastDailyRun, tallies, overlapped >>

\* variant: the duplicate skip is also recorded as a failed settlement attempt
LogDuplicateRecorded(i) ==
  /\ inv[i].pc = "log_dup"
  /\ conversionLogs' = conversionLogs \cup
        {[inv |-> i, clickid |-> Actor(inv[i].path),
          action |-> Tag(inv[i].path, "dup"), day |-> Today]}
  /\ postbackHistory' = postbackHistory \cup
        {[inv |-> i, clickid |-> Sentinel(inv[i].path), amount |-> 0,
          url |-> [clickid |-> Sentinel(inv[i].path), sum |-> 0],
          success |-> FALSE]}
  /\ Return(i, [success |-> TRUE, message |-> Message(inv[i].path, "dup"),
                skipped |-> TRUE], inv[i])
  /\ UNCHANGED << clock, accepting, store, notifications, lastDailyRun,
                  tallies, faultVars, auditFault, overlapped >>

\* if (hasRunToday) { logConversion(cron_duplicate_prevented); return skipped }
LogDuplicate(i) ==
  /\ inv[i].pc = "log_dup"
  /\ LogConversion(i, Actor(inv[i].path), Tag(inv[i].path, "dup"))
  /\ Return(i, [success |-> TRUE, message |-> Message(inv[i].path, "dup"),
                skipped |-> TRUE], inv[i])
  /\ UNCHANGED << clock, accepting, store, postbackHistory, notifications, lastDailyRun,
                  tallies, overlapped >>

\* variant: the no-op test written as `totalCached < 0`
NothingToProcessStrict(totalCached) == totalCached < 0

\* if (totalCached <= 0)
NothingToProcess(totalCached) == totalCached <= 0

\* no invocation that is still in its slot has written its success entry
NoSuccessLogged ==
  ~\E e \in conversionLogs :
     /\ e.inv # 0
     /\ e.action \in {"daily_postback_success", "cron_postback_success",
                      "manual_postback_success", "force_postback_success"}

\* const totalCached = await getGlobalCachedTotal(); if (totalCached <= 0)
GetTotal(i) ==
  /\ inv[i].pc = "get_total"
  /\ \/ /\ LET totalCached == GetGlobalCachedTotal
           IN Goto(i, IF NothingToProcess(totalCached) THEN "log_nocache" ELSE "get_clickid",
                   [inv[i] EXCEPT !.totalRead = TRUE,
                                  !.beforeSuccess = NoSuccessLogged,
                                  !.totalCached = totalCached,
                                  !.totalRecs = Range(pending)])
        /\ UNCHANGED faultVars
     \/ Caught(i, "getGlobalCachedTotal failed")
  /\ UNCHANGED << clock, accepting, store, conversionLogs, postbackHistory, notifications,
                  lastDailyRun, tallies, auditFault, overlapped >>

LogNoCache(i) ==
  /\ inv[i].pc = "log_nocache"
  /\ LogConversion(i, Actor(inv[i].path), Tag(inv[i].path, "nocache"))
  /\ Return(i, [success |-> TRUE, message |-> Message(inv[i].path, "nocache"),
                totalAmount |-> inv[i].totalCached], inv[i])
  /\ UNCHANGED << clock, accepting, store, postbackHistory, notifications, lastDailyRun,
                  tallies, overlapped >>

\* variant: ORDER BY created_at ASC, the oldest record
PickClickidOldest(p) ==
  IF pending # << >> /\ ClickidOf(Head(pending)) # ""
  THEN ClickidOf(Head(pending))
  ELSE Sentinel(p)

\* clickidResult[0]?.clickid || '<sentinel>' over the newest row
PickClickid(p) ==
  IF pending # << >> /\ ClickidOf(pending[Len(pending)]) # ""
  THEN ClickidOf(pending[Len(pending)])
  ELSE Sentinel(p)

\* SELECT clickid FROM cached_conversions ORDER BY created_at DESC LIMIT 1
GetClickid(i) ==
  /\ inv[i].pc = "get_clickid"
  /\ \/ /\ LET primaryClickid == PickClickid(inv[i].path)
           IN Goto(i, "log_preparing", [inv[i] EXCEPT !.primaryClickid = primaryClickid])
        /\ UNCHANGED faultVars
     \/ Caught(i, "pool.execute failed")
  /\ UNCHANGED << clock, accepting, store, conversionLogs, postbackHistory, notifications,
                  lastDailyRun, tallies, auditFault, overlapped >>

LogPreparing(i) ==
  /\ inv[i].pc = "log_preparing"
  /\ LogConversion(i, inv[i].primaryClickid, Tag(inv[i].path, "preparing"))
  /\ Goto(i, "fetch", inv[i])
  /\ UNCHANGED << clock, accepting, store, postbackHistory, notifications, lastDailyRun,
                  tallies, overlapped >>

\* variant: the sum of the URL is the total at the moment the URL is built
RedtrackUrlCurrentTotal(clickid, total) ==
  [clickid |-> clickid, sum |-> GetGlobalCachedTotal]

\* redtrackUrl: the two query parameters of the postback
RedtrackUrl(clickid, total) == [clickid |-> clickid, sum |-> total]

\* outcomes of `await fetch(...)` followed by `await response.text()`
FetchOutcomes == {"ok", "text_error", "http_error", "network_error"}

\* the endpoint answered with a success status
Accepted(n) == n.outcome \in {"ok", "text_error"}

ErrorOf(outcome) ==
  CASE outcome = "http_error" -> "HTTP error! status: 500"
    [] outcome = "text_error" -> "body read failed"
    [] outcome = "network_error" -> "fetch failed"
    [] OTHER -> ""

\* variant: any HTTP response counts as success (no response.ok test, no
\* failure on the body read)
PostbackSuccessAnyResponse(outcome) == outcome # "network_error"

\* postbackSuccess after the inner try/catch: true only when fetch resolved
\* with response.ok and response.text() resolved
PostbackSuccess(outcome) == outcome = "ok"

UpTo2(n) == IF n >= 2 THEN 2 ELSE n + 1

\* the inner try/catch around fetch
Fetch(i, outcome) ==
  /\ inv[i].pc = "fetch"
  /\ accepting => Accepted([outcome |-> outcome])
  /\ notifications' = notifications \cup
        {[inv |-> i, url |-> RedtrackUrl(inv[i].primaryClickid, inv[i].totalCached),
          recs |-> inv[i].totalRecs, outcome |-> outcome]}
  /\ settled' = [r \in Recs |->
                   IF r \in inv[i].totalRecs /\ Accepted([outcome |-> outcome])
                   THEN UpTo2(settled[r]) ELSE settled[r]]
  /\ sentToday' = [sentToday EXCEPT ![inv[i].path] = UpTo2(@)]
  /\ IF PostbackSuccess(outcome)
     THEN Goto(i, "log_success", [inv[i] EXCEPT !.postbackSuccess = TRUE])
     ELSE Goto(i, "log_failed", [inv[i] EXCEPT !.postbackSuccess = FALSE,
                                              !.errorMessage = ErrorOf(outcome)])
  /\ UNCHANGED << clock, accepting, store, conversionLogs, postbackHistory, lastDailyRun,
                  started, clearedToday, faultVars, auditFault, overlapped >>

LogSuccess(i) ==
  /\ inv[i].pc = "log_success"
  /\ LogConversion(i, inv[i].primaryClickid, Tag(inv[i].path, "success"))
  /\ Goto(i, "log_postback", inv[i])
  /\ UNCHANGED << clock, accepting, store, postbackHistory, notifications, lastDailyRun,
                  tallies, overlapped >>

LogFailed(i) ==
  /\ inv[i].pc = "log_failed"
  /\ LogConversion(i, inv[i].primaryClickid, Tag(inv[i].path, "failed"))
  /\ Goto(i, "log_postback", inv[i])
  /\ UNCHANGED << clock, accepting, store, postbackHistory, notifications, lastDailyRun,
                  tallies, overlapped >>

\* variant: the failure result without its message
FailureResultNoMessage(i) ==
  [success |-> FALSE, totalAmount |-> inv[i].totalCached,
   error |-> inv[i].errorMessage, clickidUsed |-> inv[i].primaryClickid]

\* return { success: false, message: '... failed - cache not cleared', ... }
FailureResult(i) ==
  [success |-> FALSE, message |-> Message(inv[i].path, "failure"),
   totalAmount |-> inv[i].totalCached, error |-> inv[i].errorMessage,
   clickidUsed |-> inv[i].primaryClickid]

\* variant: the cache is cleared whatever the outcome of the postback
ClearAlways(postbackSuccess) == TRUE

\* if (postbackSuccess) { clearAllCachedConversions() ... }
ClearAllowed(postbackSuccess) == postbackSuccess

\* await logPostback(...); if (postbackSuccess) ... else ...
RecordAttempt(i) ==
  /\ inv[i].pc = "log_postback"
  /\ LogPostback(i, inv[i].primaryClickid, inv[i].totalCached,
                 RedtrackUrl(inv[i].primaryClickid, inv[i].totalCached),
                 inv[i].postbackSuccess)
  /\ IF ClearAllowed(inv[i].postbackSuccess)
     THEN Goto(i, "clear", inv[i])
     ELSE IF inv[i].path = "manual"
     THEN Return(i, FailureResult(i), inv[i])
     ELSE Goto(i, "log_failed_final", inv[i])
  /\ UNCHANGED << clock, accepting, store, conversionLogs, notifications, lastDailyRun,
                  tallies, auditFault, overlapped >>

\* variant: the total is read again before the clear, and a changed total
\* ends the invocation in the error outcome with the records retained
ClearRechecked(i) ==
  /\ inv[i].pc = "clear"
  /\ \/ /\ GetGlobalCachedTotal = inv[i].totalCached
        /\ pending' = << >>
        /\ clearedToday' = [clearedToday EXCEPT ![inv[i].path] = UpTo2(@)]
        /\ Goto(i, "log_cleared",
                [inv[i] EXCEPT !.clearCalled = TRUE,
                               !.clearedBefore = Len(pending),
                               !.clearedRows = ClearAllCachedConversions,
                               !.deleted = Range(pending)])
        /\ UNCHANGED faultVars
     \/ /\ GetGlobalCachedTotal # inv[i].totalCached
        /\ Goto(i, "log_error", [inv[i] EXCEPT !.errorMessage = "total changed"])
        /\ UNCHANGED << pending, clearedToday, faultVars >>
     \/ /\ Caught(i, "clearAllCachedConversions failed")
        /\ UNCHANGED << pending, clearedToday >>
  /\ UNCHANGED << clock, accepting, nextRec, amount, conversionLogs, postbackHistory,
                  notifications, lastDailyRun, started, settled, sentToday,
                  auditFault, overlapped >>

\* const clearedRows = await clearAllCachedConversions()
Clear(i) ==
  /\ inv[i].pc = "clear"
  /\ \/ /\ pending' = << >>
        /\ clearedToday' = [clearedToday EXCEPT ![inv[i].path] = UpTo2(@)]
        /\ Goto(i, "log_cleared",
                [inv[i] EXCEPT !.clearCalled = TRUE,
                               !.clearedBefore = Len(pending),
                               !.clearedRows = ClearAllCachedConversions,
                               !.deleted = Range(pending)])
        /\ UNCHANGED faultVars
     \/ /\ Caught(i, "clearAllCachedConversions failed")
        /\ UNCHANGED << pending, clearedToday >>
  /\ UNCHANGED << clock, accepting, nextRec, amount, conversionLogs, postbackHistory,
                  notifications, lastDailyRun, started, settled, sentToday,
                  auditFault, overlapped >>

LogCleared(i) ==
  /\ inv[i].pc = "log_cleared"
  /\ LogConversion(i, inv[i].primaryClickid, Tag(inv[i].path, "cleared"))
  /\ Return(i, [success |-> TRUE, message |-> Message(inv[i].path, "success"),
                totalAmount |-> inv[i].totalCached,
                clearedEntries |-> inv[i].clearedRows,
                clickidUsed |-> inv[i].primaryClickid], inv[i])
  /\ UNCHANGED << clock, accepting, store, postbackHistory, notifications, lastDailyRun,
                  tallies, overlapped >>

LogFailedFinal(i) ==
  /\ inv[i].pc = "log_failed_final"
  /\ LogConversion(i, inv[i].primaryClickid, Tag(inv[i].path, "failed_final"))
  /\ Return(i, FailureResult(i), inv[i])
  /\ UNCHANGED << clock, accepting, store, postbackHistory, notifications, lastDailyRun,
                  tallies, overlapped >>

\* variant: the catch reports the run as successful
ErrorResultSuccess(p, errorMessage) ==
  [success |-> TRUE, error |-> errorMessage, message |-> Message(p, "error")]

\* return { success: false, error: error.message, message: '...' }
ErrorResult(p, errorMessage) ==
  [success |-> FALSE, error |-> errorMessage, message |-> Message(p, "error")]

\* the catch of the engine function
LogError(i) ==
  /\ inv[i].pc = "log_error"
  /\ LogConversion(i, Actor(inv[i].path), Tag(inv[i].path, "error"))
  /\ Return(i, ErrorResult(inv[i].path, inv[i].errorMessage), inv[i])
  /\ UNCHANGED << clock, accepting, store, postbackHistory, notifications, lastDailyRun,
                  tallies, overlapped >>

\* ------------------------------------------------------- specification
Next ==
  \/ \E a \in Amounts : AddPending(a)
  \/ Tick
  \/ \E i \in Invs : Retire(i)
  \/ \E i \in Invs : TimerBegin(i)
  \/ \E i \in Invs, ua \in UserAgents : CronBegin(i, ua)
  \/ \E i \in Invs, m \in Methods : ManualBegin(i, m)
  \/ \E i \in Invs, m \in Methods : ForceBegin(i, m)
  \/ \E i \in Invs : InitializeDatabase(i)
  \/ \E i \in Invs : LogHandlerError(i)
  \/ \E i \in Invs : LogTrigger(i)
  \/ \E i \in Invs : CheckIfAlreadyRanToday(i)
  \/ \E i \in Invs : LogDuplicate(i)
  \/ \E i \in Invs : GetTotal(i)
  \/ \E i \in Invs : LogNoCache(i)
  \/ \E i \in Invs : GetClickid(i)
  \/ \E i \in Invs : LogPreparing(i)
  \/ \E i \in Invs, o \in FetchOutcomes : Fetch(i, o)
  \/ \E i \in Invs : LogSuccess(i)
  \/ \E i \in Invs : LogFailed(i)
  \/ \E i \in Invs : RecordAttempt(i)
  \/ \E i \in Invs : Clear(i)
  \/ \E i \in Invs : LogCleared(i)
  \/ \E i \in Invs : LogFailedFinal(i)
  \/ \E i \in Invs : LogError(i)

Spec == Init /\ [][Next]_vars

\* ------------------------------------------ specification for liveness
\* The scheduled trigger paths (timer, cron) keep firing day after day, one
\* invocation at a time, and from some point on the endpoint answers every
\* notification with a success status.  The days of the clock repeat after
\* MaxDay; what the code compares with today is brought along.

\* from now on the endpoint accepts every notification
EndpointRecovers ==
  /\ ~accepting
  /\ accepting' = TRUE
  /\ UNCHANGED << clock, store, conversionLogs, postbackHistory, notifications,
                  lastDailyRun, inv, tallies, faultVars, auditFault, overlapped >>

\* the day after day d
NextDay(d) == IF d >= MaxDay THEN 1 ELSE d + 1

\* the clock moves on, without end.  When a day number comes round again the
\* audit rows and the marker that carry it date from an older day: the rows
\* no longer match CURDATE(), the marker no longer equals today.
LiveTick ==
  /\ \A j \in Invs : inv[j].pc = "idle"
  /\ \/ /\ clock.tp < Len(TimePoints)
        /\ clock' = [clock EXCEPT !.tp = @ + 1]
        /\ UNCHANGED << conversionLogs, lastDailyRun, sentToday, clearedToday >>
     \/ /\ clock.tp = Len(TimePoints)
        /\ clock' = [day |-> NextDay(clock.day), tp |-> 1]
        /\ conversionLogs' = { e \in conversionLogs : e.day # NextDay(clock.day) }
        /\ lastDailyRun' = IF lastDailyRun = NextDay(clock.day) THEN NoDay
                           ELSE lastDailyRun
        /\ sentToday' = [p \in Paths |-> 0]
        /\ clearedToday' = [p \in Paths |-> 0]
  /\ UNCHANGED << store, postbackHistory, notifications, accepting, inv, started,
                  settled, faultVars, auditFault, overlapped >>

\* a scheduled trigger fires while no other invocation runs
Scheduled ==
  /\ \A j \in Invs : inv[j].pc = "idle"
  /\ UNCHANGED started

\* the interval timer calls checkAndRunDailyPostback
TimerFires(i) == Scheduled /\ Start(i) /\ CheckAndRunDailyPostback(i)
\* the platform (or anyone else) calls the cron endpoint
CronFires(i, userAgent) == Scheduled /\ Start(i) /\ CronHandler(i, userAgent)

\* the timer call that falls into the window and runs the engine
TimerRuns == \E i \in Invs : TimerFires(i) /\ inv'[i].pc = "log_trigger"
\* the cron call of the platform
CronRuns == \E i \in Invs : CronFires(i, "vercel-cron/1.0")

\* the steps of a started invocation
Step ==
  \E i \in Invs :
    \/ InitializeDatabase(i)
    \/ LogHandlerError(i)
    \/ LogTrigger(i)
    \/ CheckIfAlreadyRanToday(i)
    \/ LogDuplicate(i)
    \/ GetTotal(i)
    \/ LogNoCache(i)
    \/ GetClickid(i)
    \/ LogPreparing(i)
    \/ \E o \in FetchOutcomes : Fetch(i, o)
    \/ LogSuccess(i)
    \/ LogFailed(i)
    \/ RecordAttempt(i)
    \/ Clear(i)
    \/ LogCleared(i)
    \/ LogFailedFinal(i)
    \/ LogError(i)

LiveNext ==
  \/ \E a \in Amounts : AddPending(a)
  \/ EndpointRecovers
  \/ LiveTick
  \/ \E i \in Invs : Retire(i)
  \/ \E i \in Invs : TimerFires(i)
  \/ \E i \in Invs, ua \in UserAgents : CronFires(i, ua)
  \/ Step

\* every started invocation runs to its end and is collected; time passes;
\* the timer fires in its window and the platform calls the cron endpoint
\* again and again
Fairness ==
  /\ WF_vars(Step)
  /\ WF_vars(\E i \in Invs : Retire(i))
  /\ SF_vars(LiveTick)
  /\ SF_vars(TimerRuns)
  /\ SF_vars(CronRuns)

LiveSpec == Init /\ [][LiveNext]_vars /\ Fairness

\* ---------------------------------------- specification for interleaving
\* Two invocations, each in its own slot, that may run at the same time:
\* the second trigger can fire at any suspension point of the first.  The
\* clock stands in the window of the timer path.
RaceInit ==
  /\ clock = [day |-> 1, tp |-> Len(TimePoints)]
  /\ nextRec = 1
  /\ amount = [r \in Recs |-> 0]
  /\ pending = << >>
  /\ conversionLogs = {}
  /\ postbackHistory = {}
  /\ notifications = {}
  /\ accepting = FALSE
  /\ lastDailyRun = NoDay
  /\ inv = [i \in Invs |-> IdleInv]
  /\ started = 0
  /\ settled = [r \in Recs |-> 0]
  /\ sentToday = [p \in Paths |-> 0]
  /\ clearedToday = [p \in Paths |-> 0]
  /\ faults = 0
  /\ failedSteps = {}
  /\ auditFault = FALSE
  /\ overlapped = FALSE

\* a trigger fires while the invocation in the other slot, if there is one,
\* is under way: there is no mutual exclusion between invocations
Overlap(i) ==
  /\ inv[i].pc = "idle"
  /\ \A j \in Invs : ~Done(j)
  /\ \A j \in Invs : j < i => inv[j].pc # "idle"
  /\ overlapped' = (overlapped \/ \E j \in Invs : Running(j))
  /\ UNCHANGED started

RaceTimer(i) == Overlap(i) /\ CheckAndRunDailyPostback(i)
RaceCron(i, userAgent) == Overlap(i) /\ CronHandler(i, userAgent)
RaceManual(i, method) == Overlap(i) /\ ManualHandler(i, method)
RaceForce(i, method) == Overlap(i) /\ ForceHandler(i, method)

RaceNext ==
  \/ \E a \in Amounts : AddPending(a)
  \/ \E i \in Invs : RaceTimer(i)
  \/ \E i \in Invs, ua \in UserAgents : RaceCron(i, ua)
  \/ \E i \in Invs, m \in Methods : RaceManual(i, m)
  \/ \E i \in Invs, m \in Methods : RaceForce(i, m)
  \/ Step

RaceSpec == RaceInit /\ [][RaceNext]_vars

\* ================================================================ claims
Sent(i) == { n \in notifications : n.inv = i }
Attempts(i) == { h \in postbackHistory : h.inv = i }
Entries(i) == { e \in conversionLogs : e.inv = i }
FailedAt(i, step) == <<i, step>> \in failedSteps

\* the notification of invocation i was classified as failed
NotificationFailed(i) == \E n \in Sent(i) : n.outcome # "ok"
\* the external endpoint answered the notification of i with a success status
NotificationAccepted(i) == \E n \in Sent(i) : Accepted(n)
\* invocation i called clearAllCachedConversions (it returned or it rejected)
ClearInvoked(i) == inv[i].clearCalled \/ FailedAt(i, "clear")

\* ---------------------------------------------------------------- C1
\* C1 (as stated): over invocations that run one after another, the amount
\* of a pending record is part of the sum of at most one notification that
\* the endpoint accepted.  The code does not keep this.
C1_NoDoubleSettlement ==
  ~overlapped => \A r \in Recs : settled[r] <= 1

\* ---------------------------------------------------------------- C2
\* C2 (as stated): an invocation whose notification failed deletes no
\* pending record and has recorded exactly one settlement attempt, with
\* success = false, when it returns.
C2_FailedRecordsExactlyOne ==
  \A i \in Invs :
    NotificationFailed(i) =>
      /\ ~ClearInvoked(i) /\ inv[i].deleted = {}
      /\ inv[i].pc \notin {"clear", "log_cleared"}
      /\ Done(i) => /\ Cardinality(Attempts(i)) = 1
                    /\ \A h \in Attempts(i) : h.success = FALSE

\* C2 (amended): an invocation whose notification failed deletes no pending
\* record and never calls CLEAR; it records no attempt with success = true
\* and at most one attempt, and exactly one, with success = false, unless
\* the write of the attempt itself failed (logPostback swallows that).
C2_FailedRetainsAndRecords ==
  \A i \in Invs :
    NotificationFailed(i) =>
      /\ ~ClearInvoked(i) /\ inv[i].deleted = {}
      /\ inv[i].pc \notin {"clear", "log_cleared"}
      /\ \A h \in Attempts(i) : h.success = FALSE
      /\ Cardinality(Attempts(i)) <= 1
      /\ Done(i) => (Cardinality(Attempts(i)) = 1 <=> ~FailedAt(i, "log_postback"))

C2_Witness ==
  \E i \in Invs :
    /\ Done(i) /\ NotificationFailed(i)
    /\ pending # << >>
    /\ \E h \in Attempts(i) : h.success = FALSE /\ h.amount = inv[i].totalCached

\* ---------------------------------------------------------------- C3
\* C3 (as stated): CLEAR is invoked only after, in the same invocation, the
\* notification returned a success status and a settlement attempt with
\* success = true was recorded.
C3_ClearOnlyAfterRecordedSuccess ==
  \A i \in Invs :
    (inv[i].pc = "clear" \/ ClearInvoked(i)) =>
      /\ \E n \in Sent(i) : n.outcome = "ok"
      /\ \E h \in Attempts(i) : h.success = TRUE

\* C3 (amended): CLEAR is invoked only after, in the same invocation, the
\* notification returned a success status and logPostback was called with
\* success = true; the attempt row is there unless that write failed.  CLEAR
\* is never reached from a failure outcome.
C3_ClearOnlyAfterSuccess ==
  \A i \in Invs :
    (inv[i].pc = "clear" \/ ClearInvoked(i)) =>
      /\ \E n \in Sent(i) : n.outcome = "ok"
      /\ ~NotificationFailed(i)
      /\ inv[i].postbackSuccess
      /\ \A h \in Attempts(i) : h.success = TRUE
      /\ (Attempts(i) = {}) <=> FailedAt(i, "log_postback")

C3_Witness ==
  \E i \in Invs :
    /\ inv[i].clearCalled /\ inv[i].deleted # {}
    /\ \E h \in Attempts(i) : h.success = TRUE

\* ---------------------------------------------------------------- C4
\* C4 (as stated): an invocation whose notification the endpoint accepted
\* has cleared the pending set when it returns, and reports as clearedEntries
\* the number of records present immediately before CLEAR.  The code does
\* not keep this.
C4_AcceptedIsCleared ==
  \A i \in Invs :
    (Done(i) /\ NotificationAccepted(i)) =>
      /\ inv[i].clearCalled
      /\ "clearedEntries" \in DOMAIN inv[i].result
      /\ inv[i].result.clearedEntries = inv[i].clearedBefore

\* ---------------------------------------------------------------- C5
\* C5: an invocation that reads a total <= 0 ends as a no-op: it sends no
\* notification, writes no settlement attempt, never calls CLEAR, and returns
\* success = true with the message 'No cached conversions to process'.
C5_NoOpOnEmptyTotal ==
  \A i \in Invs :
    (inv[i].totalRead /\ inv[i].totalCached <= 0) =>
      /\ Sent(i) = {} /\ Attempts(i) = {}
      /\ ~ClearInvoked(i) /\ inv[i].deleted = {}
      /\ inv[i].pc \in {"log_nocache", "done"}
      /\ Done(i) => /\ inv[i].result.success = TRUE
                    /\ inv[i].result.message = "No cached conversions to process"
                    /\ inv[i].result.totalAmount = inv[i].totalCached

C5_Witness ==
  \E i \in Invs :
    /\ Done(i) /\ inv[i].totalRead /\ inv[i].totalCached = 0
    /\ inv[i].result.message = "No cached conversions to process"

\* ---------------------------------------------------------------- C6
\* C6 (as stated): with the audit store available and the invocations one
\* after another, the timer path and the cron path do not both settle and
\* clear on one calendar day.  The code does not keep this.
C6_OncePerDayAcrossPaths ==
  (~overlapped /\ ~auditFault) =>
    ~(clearedToday["timer"] >= 1 /\ clearedToday["cron"] >= 1)

C8_EventualSettlement ==
  (accepting /\ pending # << >>) ~>
     (\E i \in Invs : inv[i].pc = "log_cleared" /\ inv[i].postbackSuccess)

\* ---------------------------------------------------------------- C9
\* steps inside the try block of the engine function
EngineSteps ==
  {"log_dup", "get_total", "log_nocache", "get_clickid", "log_preparing",
   "log_success", "log_failed", "log_postback", "clear", "log_cleared",
   "log_failed_final"}
\* the steps whose failure rejects (the others swallow it)
ThrowingSteps == {"get_total", "get_clickid", "clear"}

ExecutionErrorLogged(i) ==
  \E e \in Entries(i) : e.action = Tag(inv[i].path, "error")

C10_ResultHasSuccessAndMessage ==
  \A i \in Invs :
    (Done(i) /\ inv[i].status \notin {401, 405}) =>
      {"success", "message"} \subseteq DOMAIN inv[i].result

\* C10 (amended): every invocation that reaches the engine returns, in each
\* of its outcomes, a result with a success boolean and a message; the skip
\* of the timer path returns {skipped: true, reason} with neither, and a
\* failure of the cron or force handler before the engine returns an error
\* text (the cron one with success = false and no message).
C10_StructuredResult ==
  \A i \in Invs :
    (Done(i) /\ inv[i].status \notin {401, 405}) =>
      IF inv[i].engine
      THEN /\ {"success", "message"} \subseteq DOMAIN inv[i].result
           /\ inv[i].result.success \in BOOLEAN
           /\ inv[i].result.message # ""
      ELSE IF inv[i].path = "timer"
      THEN /\ DOMAIN inv[i].result = {"skipped", "reason"}
           /\ inv[i].result.skipped = TRUE
      ELSE /\ inv[i].status = 500
           /\ "error" \in DOMAIN inv[i].result
           /\ inv[i].path = "cron" =>
                (inv[i].result.success = FALSE /\ "message" \notin DOMAIN inv[i].result)

C10_Witness ==
  \E i \in Invs :
    /\ Done(i) /\ inv[i].engine /\ NotificationFailed(i)
    /\ inv[i].result.success = FALSE
    /\ inv[i].result.message = Message(inv[i].path, "failure")

\* ---------------------------------------------------------------- C11
\* C11 (as stated): every invocation that skips (timer outside the window,
\* timer with the marker equal to today, cron with a duplicate detected) has
\* appended an audit entry for the skip and returns skipped = true together
\* with a reason.  The code does not keep this: the two skips of the timer
\* path write no entry, and the skip of the cron path returns a message but
\* no reason.
C11_SkipLoggedWithReason ==
  \A i \in Invs :
    (Done(i) /\ "skipped" \in DOMAIN inv[i].result) =>
      /\ inv[i].result.skipped = TRUE
      /\ "reason" \in DOMAIN inv[i].result
      /\ Entries(i) # {}

\* ---------------------------------------------------------------- C12
\* C12: the manual and the forced path bypass the time window and the
\* duplicate check.  An invocation of either path that has entered the
\* engine never consults the duplicate check and never skips, at any time of
\* day and whatever was settled earlier that day; once it has read a total
\* > 0 it sends a notification, the one exception being an identifier query
\* that rejects (the invocation then ends in the execution error).
C12_AdminPathsBypass ==
  \A i \in Invs :
    (inv[i].path \in {"manual", "force"} /\ inv[i].engine) =>
      /\ inv[i].pc \notin {"check_dup", "log_dup"}
      /\ "skipped" \notin DOMAIN inv[i].result
      /\ (/\ inv[i].totalRead /\ inv[i].totalCached > 0
          /\ inv[i].pc \notin {"get_clickid", "log_preparing", "fetch"})
           => (Sent(i) # {} \/ FailedAt(i, "get_clickid"))

C12_Witness ==
  \E i \in Invs :
    /\ inv[i].path \in {"manual", "force"}
    /\ Sent(i) # {} /\ ~inv[i].clearCalled
    /\ ~IsTimeWindow(Hour, Minute)
    /\ \E p \in Paths : clearedToday[p] >= 1

\* ---------------------------------------------------------------- C13
\* C13: a call of the cron endpoint whose user-agent header is not the
\* platform value is rejected with 401 before the engine is invoked: the
\* step leaves the pending set, the audit log and the settlement attempts
\* unchanged and sends no notification, and the invocation is over.
C13_UnauthenticatedRejected ==
  [][\A i \in Invs :
       (/\ inv[i].pc = "idle" /\ inv'[i].pc # "idle"
        /\ inv'[i].path = "cron"
        /\ inv'[i].userAgent # "vercel-cron/1.0")
         => /\ inv'[i].pc = "done"
            /\ inv'[i].status = 401
            /\ ~inv'[i].engine
            /\ UNCHANGED << pending, conversionLogs, postbackHistory,
                            notifications >>]_vars

C13_Witness ==
  \E i \in Invs :
    /\ Done(i) /\ inv[i].path = "cron" /\ inv[i].userAgent = "curl/8.0"
    /\ inv[i].status = 401
    /\ pending # << >>
    /\ Entries(i) = {} /\ Attempts(i) = {} /\ Sent(i) = {}

\* ---------------------------------------------------------------- C14
\* C14: on the timer path the engine runs only at hour 23, minute 59.  A
\* call of checkAndRunDailyPostback at any other minute, 00:00 of the next
\* day included, returns skipped and changes neither the in-process marker
\* nor the pending set; a call that goes on to the engine is inside the
\* window.
C14_TimerOnlyInWindow ==
  [][\A i \in Invs :
       (/\ inv[i].pc = "idle" /\ inv'[i].pc # "idle"
        /\ inv'[i].path = "timer")
         => IF Hour = 23 /\ Minute = 59
            THEN inv'[i].pc = "done" <=> lastDailyRun = Today
            ELSE /\ inv'[i].pc = "done"
                 /\ ~inv'[i].engine
                 /\ "skipped" \in DOMAIN inv'[i].result
                 /\ inv'[i].result.skipped = TRUE
                 /\ UNCHANGED << lastDailyRun, pending >>]_vars

C14_Witness ==
  \E i \in Invs :
    /\ Done(i) /\ inv[i].path = "timer"
    /\ "skipped" \in DOMAIN inv[i].result
    /\ Hour = 0 /\ Minute = 0
    /\ lastDailyRun # NoDay /\ lastDailyRun # Today
    /\ pending # << >>

\* ---------------------------------------------------------------- C15
\* C15: fail open.  When the query of the persisted duplicate check rejects,
\* checkIfAlreadyRanToday answers "not yet run": the cron invocation goes on
\* to read the total and to settle; it neither skips nor ends in an error
\* because of the failed query, even when a confirmed entry of today exists.
C15_FailOpen ==
  \A i \in Invs :
    FailedAt(i, "check_dup") =>
      /\ inv[i].path = "cron"
      /\ inv[i].pc \notin {"check_dup", "log_dup", "log_handler_error"}
      /\ "skipped" \notin DOMAIN inv[i].result
      /\ inv[i].pc = "get_total" \/ inv[i].totalRead \/ FailedAt(i, "get_total")
      /\ (inv[i].pc = "log_error" \/ (Done(i) /\ ~inv[i].result.success)) =>
            (NotificationFailed(i) \/ \E st \in {"get_total", "get_clickid", "clear"} :
                                         FailedAt(i, st))

C15_Witness ==
  \E i \in Invs :
    /\ FailedAt(i, "check_dup")
    /\ \E e \in conversionLogs :
         /\ e.action \in {"cron_postback_success", "cron_cache_cleared"}
         /\ e.day = Today
         /\ e.inv # i
    /\ inv[i].clearCalled /\ inv[i].deleted # {}

\* ---------------------------------------------------------------- C16
\* C16: nothing excludes two interleaved invocations from each other.  The
\* duplicate check answers "already ran" only on a success entry that is
\* already written, and an invocation whose notification succeeded goes on
\* to CLEAR whatever the other invocation has done.  So the state of the
\* claim is reachable (C16_Witness): two invocations of different paths both
\* read the same pending records before either wrote a success entry, two
\* notifications were sent for these records, and both executed CLEAR.
C16_NoMutualExclusion ==
  \A i \in Invs :
    /\ inv[i].pc = "log_dup" =>
         \E e \in conversionLogs :
           /\ e.action \in {"cron_postback_success", "cron_cache_cleared"}
           /\ e.day = Today
    /\ (inv[i].postbackSuccess /\ inv[i].pc \in {"log_cleared", "log_error", "done"})
         => ClearInvoked(i)

C16_Witness ==
  \E i, j \in Invs :
    /\ inv[i].path = "cron" /\ inv[j].path = "manual"
    /\ inv[i].beforeSuccess /\ inv[j].beforeSuccess
    /\ inv[i].totalRecs # {} /\ inv[i].totalRecs = inv[j].totalRecs
    /\ \E n \in Sent(i) : n.outcome = "ok"
    /\ \E n \in Sent(j) : n.outcome = "ok"
    /\ inv[i].clearCalled /\ inv[j].clearCalled
    /\ faults = 0

\* ---------------------------------------------------------------- C17
\* C17: the total is read once and not read again before CLEAR.  Unless the
\* clear itself rejects, the invocation that reaches CLEAR deletes every
\* record pending at that moment and keeps the total it read at the start;
\* a record the upstream flow added after the read is deleted although its
\* amount was not part of the notified sum (C17_Witness).
C17_ClearWithoutRecheck ==
  [][\A i \in Invs :
       (inv[i].pc = "clear" /\ inv'[i].pc # "clear") =>
          \/ <<i, "clear">> \in failedSteps'
          \/ /\ inv'[i].pc = "log_cleared"
             /\ pending' = << >>
             /\ inv'[i].deleted = Range(pending)
             /\ inv'[i].clearedRows = Len(pending)
             /\ inv'[i].totalCached = inv[i].totalCached]_vars

C17_Witness ==
  \E i \in Invs :
    /\ inv[i].clearCalled /\ inv[i].postbackSuccess
    /\ \E r \in inv[i].deleted : r \notin inv[i].totalRecs /\ settled[r] = 0
    /\ \E n \in Sent(i) : n.recs = inv[i].totalRecs /\ n.url.sum = inv[i].totalCached
    /\ ~overlapped

\* ---------------------------------------------------------------- C18
\* C18 (as stated): an invocation that sent a notification has, when it
\* returns, sent exactly one, for the total it read at its start, and has
\* recorded exactly one settlement attempt with the identifier, amount, URL
\* and outcome of that notification.
C18_OneNotificationOneAttempt ==
  \A i \in Invs :
    (Done(i) /\ Sent(i) # {}) =>
      /\ Cardinality(Sent(i)) = 1
      /\ Cardinality(Attempts(i)) = 1
      /\ \A n \in Sent(i), h \in Attempts(i) :
           /\ n.url.sum = inv[i].totalCached
           /\ h.clickid = n.url.clickid /\ h.amount = n.url.sum /\ h.url = n.url
           /\ h.success = (n.outcome = "ok")

\* C18 (amended): an invocation that reaches SEND has read a total > 0 and
\* sends exactly one notification (no retry), whose sum is the total read at
\* the start.  It records at most one settlement attempt, carrying the
\* identifier, amount, URL and outcome of that notification, and exactly
\* one unless the write of the attempt fails (logPostback swallows that).
C18_SingleAttempt ==
  \A i \in Invs :
    Sent(i) # {} =>
      /\ Cardinality(Sent(i)) = 1
      /\ inv[i].totalRead /\ inv[i].totalCached > 0
      /\ \A n \in Sent(i) :
           /\ n.url.sum = inv[i].totalCached
           /\ n.url.clickid = inv[i].primaryClickid
      /\ Cardinality(Attempts(i)) <= 1
      /\ \A n \in Sent(i), h \in Attempts(i) :
           /\ h.clickid = n.url.clickid /\ h.amount = n.url.sum /\ h.url = n.url
           /\ h.success = (n.outcome = "ok")
      /\ inv[i].pc \notin {"log_success", "log_failed", "log_postback"} =>
           (Attempts(i) # {} <=> ~FailedAt(i, "log_postback"))

C18_Witness ==
  \E i \in Invs :
    /\ Done(i) /\ Cardinality(Sent(i)) = 1 /\ Cardinality(Attempts(i)) = 1
    /\ \E n \in Sent(i), h \in Attempts(i) :
         /\ h.url = n.url /\ h.amount = inv[i].totalCached
         /\ n.outcome = "http_error" /\ h.success = FALSE
    /\ SumAmounts(amount, pending) > inv[i].totalCached

\* ---------------------------------------------------------------- C19
\* C19: the identifier query yields the click identifier of the most
\* recently created pending record (the record with the highest id), and
\* the sentinel of the path exactly when no record is pending at that
\* moment.  As long as no other invocation has run alongside, the query
\* never yields the sentinel, so no notification is sent with it.
C19_IdentifierIsNewest ==
  [][\A i \in Invs :
       (inv[i].pc = "get_clickid" /\ inv'[i].pc = "log_preparing") =>
          /\ IF pending = << >>
             THEN inv'[i].primaryClickid = Sentinel(inv[i].path)
             ELSE /\ inv'[i].primaryClickid =
                       ClickidOf(CHOOSE r \in Range(pending) :
                                   \A q \in Range(pending) : q <= r)
                  /\ inv'[i].primaryClickid # Sentinel(inv[i].path)
          /\ ~overlapped => inv'[i].primaryClickid # Sentinel(inv[i].path)]_vars

C19_Witness ==
  \E i, j \in Invs :
    /\ i # j
    /\ \E n \in Sent(j) : n.recs = {1, 2} /\ n.url.clickid = ClickidOf(2)
    /\ \E n \in Sent(i) : n.url.clickid = Sentinel(inv[i].path)
    /\ overlapped

\* ---------------------------------------------------------------- C20
\* the audit entries written for a terminal state of the engine
TerminalActions ==
  {"no_cache_to_process", "cron_no_cache", "manual_no_cache", "force_no_cache",
   "daily_cache_cleared", "cron_cache_cleared", "manual_cache_cleared",
   "force_cache_cleared",
   "daily_postback_failed_final", "cron_postback_failed_final",
   "force_postback_failed_final",
   "daily_execution_error", "cron_execution_error", "manual_execution_error",
   "force_execution_error"}

\* C20 (as stated, and with no store operation of the invocation failing):
\* on every path each transition of the engine (preparing, success or
\* failure) has produced exactly one audit entry, and every terminal state
\* (no-op, success, failure-retained, error) has an audit entry of its own
\* before the invocation returns.  The code does not keep this: the manual
\* path returns from a failed notification without a terminal entry.
C20_EveryTerminalStateLogged ==
  \A i \in Invs :
    (/\ Done(i) /\ inv[i].engine /\ "skipped" \notin DOMAIN inv[i].result
     /\ ~\E f \in failedSteps : f[1] = i) =>
      /\ Sent(i) # {} =>
           /\ Cardinality({ e \in Entries(i) :
                              e.action = Tag(inv[i].path, "preparing") }) = 1
           /\ Cardinality({ e \in Entries(i) :
                              e.action \in {Tag(inv[i].path, "success"),
                                            Tag(inv[i].path, "failed")} }) = 1
      /\ Cardinality({ e \in Entries(i) : e.action \in TerminalActions }) = 1

\* ---------------------------------------------------------------- C21
\* C21: an invocation that ends in a skip (timer outside the window or with
\* the marker equal to today, cron with a confirmed entry of today) has sent
\* no notification, recorded no settlement attempt and deleted no pending
\* record; it has not even read the total.
C21_SkipHasNoEffect ==
  \A i \in Invs :
    (inv[i].pc = "log_dup" \/ "skipped" \in DOMAIN inv[i].result) =>
      /\ inv[i].path \in {"timer", "cron"}
      /\ Sent(i) = {} /\ Attempts(i) = {}
      /\ ~ClearInvoked(i) /\ inv[i].deleted = {}
      /\ ~inv[i].totalRead

C21_Witness ==
  \E i \in Invs :
    /\ Done(i) /\ inv[i].path = "cron"
    /\ "skipped" \in DOMAIN inv[i].result /\ inv[i].result.skipped = TRUE
    /\ pending # << >>
    /\ Sent(i) = {} /\ Attempts(i) = {}

\* ---------------------------------------------------------------- C22
\* C22: the timer path sets the in-process marker to today before the engine
\* runs and never resets it.  The marker changes only in the call that
\* enters the window, and to today; every call of checkAndRunDailyPostback
\* that finds the marker equal to today returns skipped with the reason
\* 'Already ran today' and performs no I/O, however the first run of that
\* day ended.
C22_MarkerSetOnceNeverReset ==
  [][/\ lastDailyRun' # lastDailyRun =>
          /\ lastDailyRun' = Today
          /\ \E i \in Invs : /\ inv[i].pc = "idle"
                             /\ inv'[i].path = "timer"
                             /\ inv'[i].pc = "log_trigger"
     /\ \A i \in Invs :
          (/\ inv[i].pc = "idle" /\ inv'[i].pc # "idle"
           /\ inv'[i].path = "timer"
           /\ lastDailyRun = Today)
            => /\ inv'[i].pc = "done"
               /\ inv'[i].result = [skipped |-> TRUE, reason |-> "Already ran today"]
               /\ UNCHANGED << lastDailyRun, pending, conversionLogs,
                               postbackHistory, notifications, faults >>]_vars

C22_Witness ==
  \E i \in Invs :
    /\ Done(i) /\ inv[i].path = "timer"
    /\ inv[i].result = [skipped |-> TRUE, reason |-> "Already ran today"]
    /\ IsTimeWindow(Hour, Minute)
    /\ sentToday["timer"] = 1 /\ clearedToday["timer"] = 0
    /\ pending # << >>

====
